---- MODULE Spec2Model ----
(* Model of linux/user-management/clone-user.py: a linear script that      *)
(* clones the supplementary groups of a reference account into a new       *)
(* account by calling useradd.  A state of the model is the position of    *)
(* the script (pc), its local variables, the two output streams, the exit  *)
(* status, and the platform's account and group directories.  A string the *)
(* script builds is a sequence of tokens, so that join and quoting are     *)
(* computed rather than assumed.  The state starts when parse_args has     *)
(* returned; a second invocation with the same arguments is action NextRun. *)
EXTENDS Integers, Sequences, FiniteSets, TLC

\* ------------------------------------------------------------------ bounds
MaxGroups == 2      \* longest group directory enumerated by grp.getgrall()
MaxRuns == 2        \* number of consecutive invocations of the script

\* ------------------------------------------------------------- input sets
Names == {"u", "v"}                  \* account names
GroupNames == {"u", "g"}             \* group names: one named after an account
Shells == {"/bin/bash", "/bin/sh"}
Root == 0                            \* the euid the script requires
Euids == {0, 1000}

Str(x) == <<x>>                      \* an atomic string as a token sequence

FullNames ==
    { [supplied |-> FALSE, value |-> <<>>],              \* no -fn (None)
      [supplied |-> TRUE,  value |-> <<>>],              \* -fn ""
      [supplied |-> TRUE,  value |-> <<"Takeoff", " ", "Technical">>] }

YesVariants == { <<a, b, c>> : a \in {"y", "Y"}, b \in {"e", "E"}, c \in {"s", "S"} }

Choices ==
    { <<>>, <<"y">>, <<"Y">>, <<"y", "e", "s">>, <<"Y", "E", "S">>, <<"y", "E", "s">>,
      <<"n">>, <<"N">>, <<"n", "o">>, <<"y", "e">>, <<" ", "y">>, <<"y", "e", "s", " ">> }

GroupRecords == [gr_name : GroupNames, gr_mem : SUBSET Names]

RECURSIVE SeqsUpTo(_, _)
SeqsUpTo(S, n) ==
    IF n = 0 THEN { <<>> }
    ELSE LET shorter == SeqsUpTo(S, n - 1)
         IN  shorter \cup { Append(s, x) : s \in { t \in shorter : Len(t) = n - 1 }, x \in S }

GroupDirectories == SeqsUpTo(GroupRecords, MaxGroups)

AccountDirectories == UNION { [D -> Shells] : D \in SUBSET Names }

\* ----------------------------------------------------------------- state
VARIABLES
    args,            \* parsed command line: clone_user, new_user, full_name
    euid,            \* os.geteuid() of this invocation
    accounts,        \* platform account directory: name -> login shell
    groups,          \* platform group directory, as grp.getgrall() lists it
    pc,              \* position of the script
    clone_user,      \* pwd record of the reference account
    clone_groups,    \* list built by the loop over grp.getgrall()
    cmd,             \* argument list of the useradd command
    cmdline,         \* ' '.join(cmd), printed and passed to os.system
    choice,          \* the operator's answer to the prompt
    rc,              \* what os.system returned (ignored by the script)
    stdout,          \* messages written to standard output
    stderr,          \* messages written to standard error
    status,          \* exit status, -1 while running
    steps,           \* what this run has done so far
    run,             \* index of the current invocation
    prev,            \* outcome of the previous invocation
    accountsAtStart  \* the account directory when this run started

vars == << args, euid, accounts, groups, pc, clone_user, clone_groups, cmd,
           cmdline, choice, rc, stdout, stderr, status, steps, run, prev,
           accountsAtStart >>

NoRun == [status |-> -1, useradd |-> FALSE, created |-> FALSE]

NoRecord == [pw_name |-> "", pw_shell |-> ""]

Msg(text, name) == [text |-> text, name |-> name]

\* ------------------------------------------------------- pure functions
\* pwd.getpwnam: the name is present in the account directory
Exists(name) == name \in DOMAIN accounts

getpwnam(name) == [pw_name |-> name, pw_shell |-> accounts[name]]

\* the loop of lines 67-69 without the test against the account's own name
RECURSIVE CloneGroupsNoSelfTest(_, _)
CloneGroupsNoSelfTest(name, grs) ==
    IF grs = <<>> THEN <<>>
    ELSE LET group == Head(grs)
             rest  == CloneGroupsNoSelfTest(name, Tail(grs))
         IN  IF name \in group.gr_mem
             THEN <<group.gr_name>> \o rest
             ELSE rest

\* the loop of lines 67-69: one append per matching entry, in directory order
RECURSIVE CloneGroups(_, _)
CloneGroups(name, grs) ==
    IF grs = <<>> THEN <<>>
    ELSE LET group == Head(grs)
             rest  == CloneGroups(name, Tail(grs))
         IN  IF name \in group.gr_mem /\ ~(name = group.gr_name)
             THEN <<group.gr_name>> \o rest
             ELSE rest

\* sep.join(strs): the strings with sep between neighbours
RECURSIVE Join(_, _)
Join(sep, strs) ==
    IF strs = <<>> THEN <<>>
    ELSE IF Len(strs) = 1 THEN Head(strs)
    ELSE Head(strs) \o <<sep>> \o Join(sep, Tail(strs))

StrList(names) == [i \in 1..Len(names) |-> Str(names[i])]

\* lines 72-85 with the --user-group instruction left out
BuildCmdNoUserGroup(shell, grps, new, full_name) ==
    << Str("useradd"), Str("--shell"), Str(shell), Str("--create-home"),
       Str("--groups"), Join(",", StrList(grps)), Str(new) >>
    \o (IF full_name.supplied /\ full_name.value # <<>>
        THEN << Str("--comment"), <<"\"">> \o full_name.value \o <<"\"">> >>
        ELSE <<>>)

\* lines 72-85: the argument list; the comment is added when full_name is truthy
BuildCmd(shell, grps, new, full_name) ==
    << Str("useradd"), Str("--shell"), Str(shell), Str("--create-home"),
       Str("--user-group"), Str("--groups"), Join(",", StrList(grps)), Str(new) >>
    \o (IF full_name.supplied /\ full_name.value # <<>>
        THEN << Str("--comment"), <<"\"">> \o full_name.value \o <<"\"">> >>
        ELSE <<>>)

\* str.lower on the characters the operator can type
LowerChar(c) ==
    CASE c = "Y" -> "y"
      [] c = "E" -> "e"
      [] c = "S" -> "s"
      [] c = "N" -> "n"
      [] OTHER   -> c

Lower(s) == [i \in 1..Len(s) |-> LowerChar(s[i])]

\* line 91: choice.lower() in ['y', 'yes']
Affirmative(c) == Lower(c) \in { <<"y">>, <<"y", "e", "s">> }

\* ------------------------------------------------------------------ Init
Init ==
    /\ args \in [clone_user : Names, new_user : Names, full_name : FullNames]
    /\ euid \in Euids
    /\ accounts \in AccountDirectories
    /\ groups \in GroupDirectories
    /\ pc = "privilege"
    /\ clone_user = NoRecord
    /\ clone_groups = <<>>
    /\ cmd = <<>>
    /\ cmdline = <<>>
    /\ choice = <<>>
    /\ rc = 0
    /\ stdout = <<>>
    /\ stderr = <<>>
    /\ status = -1
    /\ steps = {}
    /\ run = 1
    /\ prev = NoRun
    /\ accountsAtStart = accounts

\* --------------------------------------------------------------- actions
Exit(code) == pc' = "done" /\ status' = code

\* lines 44-47 with the exit missing: the script goes on without privilege
CheckPrivilegeNoExit ==
    /\ pc = "privilege"
    /\ steps' = steps \cup {"privilege"}
    /\ stderr' = IF euid # Root
                 THEN Append(stderr, Msg("Insufficient privelege!", ""))
                 ELSE stderr
    /\ pc' = "source"
    /\ UNCHANGED << args, euid, accounts, groups, clone_user, clone_groups, cmd,
                    cmdline, choice, rc, stdout, status, run, prev,
                    accountsAtStart >>

\* lines 44-47
CheckPrivilege ==
    /\ pc = "privilege"
    /\ steps' = steps \cup {"privilege"}
    /\ IF euid # Root
       THEN /\ stderr' = Append(stderr, Msg("Insufficient privelege!", ""))
            /\ Exit(1)
       ELSE /\ pc' = "source"
            /\ UNCHANGED << stderr, status >>
    /\ UNCHANGED << args, euid, accounts, groups, clone_user, clone_groups, cmd,
                    cmdline, choice, rc, stdout, run, prev, accountsAtStart >>

\* lines 49-54 with the exit missing after the message
ResolveSourceNoExit ==
    /\ pc = "source"
    /\ steps' = steps \cup {"pwd:source"}
    /\ IF Exists(args.clone_user)
       THEN /\ clone_user' = getpwnam(args.clone_user)
            /\ UNCHANGED stderr
       ELSE /\ stderr' = Append(stderr, Msg("Unable to find clone source user", args.clone_user))
            /\ clone_user' = [pw_name |-> args.clone_user, pw_shell |-> "/bin/sh"]
    /\ pc' = "target"
    /\ UNCHANGED << args, euid, accounts, groups, clone_groups, cmd, cmdline,
                    choice, rc, stdout, status, run, prev, accountsAtStart >>

\* lines 49-54
ResolveSource ==
    /\ pc = "source"
    /\ steps' = steps \cup {"pwd:source"}
    /\ IF Exists(args.clone_user)
       THEN /\ clone_user' = getpwnam(args.clone_user)
            /\ pc' = "target"
            /\ UNCHANGED << stderr, status >>
       ELSE /\ stderr' = Append(stderr, Msg("Unable to find clone source user", args.clone_user))
            /\ Exit(1)
            /\ UNCHANGED clone_user
    /\ UNCHANGED << args, euid, accounts, groups, clone_groups, cmd, cmdline,
                    choice, rc, stdout, run, prev, accountsAtStart >>

\* lines 56-62 with the exit missing after the message
CheckTargetNoExit ==
    /\ pc = "target"
    /\ steps' = steps \cup {"pwd:target"}
    /\ stderr' = IF Exists(args.new_user)
                 THEN Append(stderr, Msg("New user already exists", args.new_user))
                 ELSE stderr
    /\ pc' = "groups"
    /\ UNCHANGED << args, euid, accounts, groups, clone_user, clone_groups, cmd,
                    cmdline, choice, rc, stdout, status, run, prev,
                    accountsAtStart >>

\* lines 56-62
CheckTarget ==
    /\ pc = "target"
    /\ steps' = steps \cup {"pwd:target"}
    /\ IF Exists(args.new_user)
       THEN /\ stderr' = Append(stderr, Msg("New user already exists", args.new_user))
            /\ Exit(1)
       ELSE /\ pc' = "groups"
            /\ UNCHANGED << stderr, status >>
    /\ UNCHANGED << args, euid, accounts, groups, clone_user, clone_groups, cmd,
                    cmdline, choice, rc, stdout, run, prev, accountsAtStart >>

\* lines 64-69
DeriveGroups ==
    /\ pc = "groups"
    /\ steps' = steps \cup {"grp"}
    /\ clone_groups' = CloneGroups(clone_user.pw_name, groups)
    /\ pc' = "build"
    /\ UNCHANGED << args, euid, accounts, groups, clone_user, cmd, cmdline,
                    choice, rc, stdout, stderr, status, run, prev,
                    accountsAtStart >>

\* lines 71-87
BuildCommand ==
    /\ pc = "build"
    /\ steps' = steps \cup {"build"}
    /\ cmd' = BuildCmd(clone_user.pw_shell, clone_groups, args.new_user, args.full_name)
    /\ cmdline' = Join(" ", cmd')
    /\ stdout' = Append(stdout, Msg("Command to run", ""))
    /\ pc' = "confirm"
    /\ UNCHANGED << args, euid, accounts, groups, clone_user, clone_groups,
                    choice, rc, stderr, status, run, prev, accountsAtStart >>

\* lines 89-93 with the exit missing after the cancellation message
ConfirmNoExit ==
    /\ pc = "confirm"
    /\ steps' = steps \cup {"prompt"}
    /\ \E c \in Choices :
          /\ choice' = c
          /\ stdout' = IF Affirmative(c)
                       THEN Append(stdout, Msg("Shall we proceed? [y/n]", ""))
                       ELSE stdout \o << Msg("Shall we proceed? [y/n]", ""),
                                         Msg("Operation cancelled.", "") >>
          /\ pc' = "execute"
    /\ UNCHANGED << args, euid, accounts, groups, clone_user, clone_groups, cmd,
                    cmdline, rc, stderr, status, run, prev, accountsAtStart >>

\* lines 89-93
Confirm ==
    /\ pc = "confirm"
    /\ steps' = steps \cup {"prompt"}
    /\ \E c \in Choices :
          /\ choice' = c
          /\ IF ~Affirmative(c)
             THEN /\ stdout' = stdout \o << Msg("Shall we proceed? [y/n]", ""),
                                            Msg("Operation cancelled.", "") >>
                  /\ Exit(0)
             ELSE /\ stdout' = Append(stdout, Msg("Shall we proceed? [y/n]", ""))
                  /\ pc' = "execute"
                  /\ UNCHANGED status
    /\ UNCHANGED << args, euid, accounts, groups, clone_user, clone_groups, cmd,
                    cmdline, rc, stderr, run, prev, accountsAtStart >>

\* line 95: useradd either creates the account or does not, and reports a
\* status of its own that the script does not read
Execute ==
    /\ pc = "execute"
    /\ steps' = steps \cup {"useradd"}
    /\ \E created \in BOOLEAN, r \in {0, 1} :
          /\ accounts' = IF created
                         THEN [n \in DOMAIN accounts \cup {args.new_user} |->
                                 IF n = args.new_user THEN clone_user.pw_shell
                                 ELSE accounts[n]]
                         ELSE accounts
          /\ rc' = r
    /\ pc' = "verify"
    /\ UNCHANGED << args, euid, groups, clone_user, clone_groups, cmd, cmdline,
                    choice, stdout, stderr, status, run, prev,
                    accountsAtStart >>

\* lines 97-104 deciding on the status useradd reported instead of the lookup
VerifyByReturnCode ==
    /\ pc = "verify"
    /\ steps' = steps \cup {"pwd:postcheck"}
    /\ IF rc = 0
       THEN /\ stdout' = Append(stdout, Msg("User has been successfully created.", args.new_user))
            /\ Exit(0)
       ELSE /\ stdout' = Append(stdout, Msg("Failed to create user", args.new_user))
            /\ Exit(1)
    /\ UNCHANGED << args, euid, accounts, groups, clone_user, clone_groups, cmd,
                    cmdline, choice, rc, stderr, run, prev, accountsAtStart >>

\* lines 97-104 with the failure branch falling through to the final exit
VerifyNoFailure ==
    /\ pc = "verify"
    /\ steps' = steps \cup {"pwd:postcheck"}
    /\ stdout' = Append(stdout, Msg("User has been successfully created.", args.new_user))
    /\ Exit(0)
    /\ UNCHANGED << args, euid, accounts, groups, clone_user, clone_groups, cmd,
                    cmdline, choice, rc, stderr, run, prev, accountsAtStart >>

\* lines 97-104
Verify ==
    /\ pc = "verify"
    /\ steps' = steps \cup {"pwd:postcheck"}
    /\ IF Exists(args.new_user)
       THEN /\ stdout' = Append(stdout, Msg("User has been successfully created.",
                                            getpwnam(args.new_user).pw_name))
            /\ Exit(0)
       ELSE /\ stdout' = Append(stdout, Msg("Failed to create user", args.new_user))
            /\ Exit(1)
    /\ UNCHANGED << args, euid, accounts, groups, clone_user, clone_groups, cmd,
                    cmdline, choice, rc, stderr, run, prev, accountsAtStart >>

\* the operator invokes the script again with the same arguments; the
\* directories are what the previous invocation left
NextRun ==
    /\ pc = "done"
    /\ run < MaxRuns
    /\ run' = run + 1
    /\ prev' = [status  |-> status,
                 useradd |-> ("useradd" \in steps),
                 created |-> (status = 0 /\ "pwd:postcheck" \in steps)]
    /\ euid' \in Euids
    /\ accountsAtStart' = accounts
    /\ pc' = "privilege"
    /\ clone_user' = NoRecord
    /\ clone_groups' = <<>>
    /\ cmd' = <<>>
    /\ cmdline' = <<>>
    /\ choice' = <<>>
    /\ rc' = 0
    /\ stdout' = <<>>
    /\ stderr' = <<>>
    /\ status' = -1
    /\ steps' = {}
    /\ UNCHANGED << args, accounts, groups >>

Next ==
    \/ CheckPrivilege
    \/ ResolveSource
    \/ CheckTarget
    \/ DeriveGroups
    \/ BuildCommand
    \/ Confirm
    \/ Execute
    \/ Verify
    \/ NextRun

Spec == Init /\ [][Next]_vars

\* ------------------------------------------------------------ properties
Elems(s) == { s[i] : i \in 1..Len(s) }

Last(s) == s[Len(s)]

SourcePresentAtStart == args.clone_user \in DOMAIN accountsAtStart

TargetPresentAtStart == args.new_user \in DOMAIN accountsAtStart

InsufficientMsg == Msg("Insufficient privelege!", "")
NotFoundMsg == Msg("Unable to find clone source user", args.clone_user)
AlreadyExistsMsg == Msg("New user already exists", args.new_user)
FailedMsg == Msg("Failed to create user", args.new_user)
SuccessMsg == Msg("User has been successfully created.", args.new_user)
CancelledMsg == Msg("Operation cancelled.", "")

ErrorTexts == { InsufficientMsg.text, NotFoundMsg.text, AlreadyExistsMsg.text, FailedMsg.text }

\* every spelling of "y" and "yes" that differs only in case
AffirmativeInputs == { <<"y">>, <<"Y">> } \cup YesVariants

\* C1: once the groups are derived, the names in the derived list are exactly
\* the names of the directory entries that list the source account as a member
\* and are not named after it.
C1_DerivedGroupsExact ==
    "grp" \in steps =>
        Elems(clone_groups) =
            { groups[i].gr_name :
                i \in { j \in 1..Len(groups) :
                          /\ args.clone_user \in groups[j].gr_mem
                          /\ groups[j].gr_name # args.clone_user } }

C1_Witness ==
    /\ "grp" \in steps
    /\ clone_groups # <<>>
    /\ \E i \in 1..Len(groups) :
          groups[i].gr_name = args.clone_user /\ args.clone_user \in groups[i].gr_mem

C3_CancelIsClean ==
    ( /\ euid = Root
      /\ SourcePresentAtStart
      /\ ~TargetPresentAtStart
      /\ "prompt" \in steps
      /\ choice \notin AffirmativeInputs )
    =>
    ( /\ pc = "done"
      /\ status = 0
      /\ Last(stdout) = CancelledMsg
      /\ stderr = <<>>
      /\ "useradd" \notin steps
      /\ accounts = accountsAtStart )

C3_Witness ==
    /\ euid = Root /\ SourcePresentAtStart /\ ~TargetPresentAtStart
    /\ "prompt" \in steps
    /\ choice = <<"y", "e">>
    /\ pc = "done"

\* C4: with privilege and source and target both present, the run never
\* prompts and never invokes useradd, and once past the target check it has
\* exited with status 1 after the already-exists message naming the target.
C4_TargetExistsGate ==
    ( euid = Root /\ SourcePresentAtStart /\ TargetPresentAtStart )
    =>
    ( /\ steps \cap {"grp", "build", "prompt", "useradd", "pwd:postcheck"} = {}
      /\ pc \notin {"privilege", "source", "target"} =>
            pc = "done" /\ status = 1 /\ stderr = <<AlreadyExistsMsg>> )

C4_Witness ==
    /\ euid = Root /\ SourcePresentAtStart /\ TargetPresentAtStart
    /\ args.clone_user # args.new_user
    /\ pc = "done"

\* C5: with privilege and the source absent, the run does nothing beyond the
\* privilege check and the source lookup, and once past that lookup it has
\* exited with status 1 after the not-found message naming the source.
C5_SourceMissingGate ==
    ( euid = Root /\ ~SourcePresentAtStart )
    =>
    ( /\ steps \subseteq {"privilege", "pwd:source"}
      /\ cmd = <<>>
      /\ pc \notin {"privilege", "source"} =>
            pc = "done" /\ status = 1 /\ stderr = <<NotFoundMsg>> )

C5_Witness == euid = Root /\ ~SourcePresentAtStart /\ pc = "done"

\* C6: a run that invoked useradd ends with status 0 and the success message
\* naming the target exactly when the target resolves afterwards, and with
\* status 1 and the creation-failed message otherwise, whatever useradd
\* returned.
C6_PostCheckDecides ==
    ( "useradd" \in steps /\ pc = "done" )
    =>
    ( /\ "pwd:postcheck" \in steps
      /\ (status = 0 /\ Last(stdout) = SuccessMsg) <=> Exists(args.new_user)
      /\ ~Exists(args.new_user) => status = 1 /\ Last(stdout) = FailedMsg )

C6_Witness ==
    /\ "useradd" \in steps /\ pc = "done"
    /\ rc = 0 /\ ~Exists(args.new_user)

\* C7 as stated: whatever the first of two consecutive runs did, the second
\* ends at the target-already-exists check with status 1, and useradd is
\* invoked at most once over the two runs.
C7_IdempotenceAnyTwoRuns ==
    ( run >= 2 /\ pc = "done" )
    =>
    ( /\ status = 1
      /\ stderr = <<AlreadyExistsMsg>>
      /\ ~(prev.useradd /\ "useradd" \in steps) )

\* C7 amended: when the previous run created the target, the next run never
\* invokes useradd, and if it has privilege it ends at the
\* target-already-exists check with status 1; useradd ran once over the two.
C7_IdempotenceAfterSuccess ==
    ( run >= 2 /\ prev.created )
    =>
    ( /\ prev.useradd
      /\ "useradd" \notin steps
      /\ (euid = Root /\ pc = "done") =>
            /\ status = 1
            /\ stderr = <<AlreadyExistsMsg>>
            /\ "pwd:target" \in steps
            /\ steps \cap {"grp", "build", "prompt"} = {} )

C7_Witness == run >= 2 /\ prev.created /\ euid = Root /\ pc = "done"

\* C8: a run that exits with status 1 has written exactly one message, the one
\* of its error kind with the offending name, to the error stream, and no
\* error message to standard output.
C8_ErrorsOnErrorStream ==
    ( pc = "done" /\ status = 1 )
    =>
    ( /\ Len(stderr) = 1
      /\ stderr[1] \in { InsufficientMsg, NotFoundMsg, AlreadyExistsMsg, FailedMsg }
      /\ \A i \in 1..Len(stdout) : stdout[i].text \notin ErrorTexts )

\* C9: once the command is built, the derived group list has no name twice
\* and does not have the source account's own name.
C9_NoDuplicateNoPrimary ==
    "build" \in steps =>
        /\ \A i, j \in 1..Len(clone_groups) :
              i # j => clone_groups[i] # clone_groups[j]
        /\ args.clone_user \notin Elems(clone_groups)

\* the group argument is the derived names in order with a comma between them
GroupsArgument(a) ==
    /\ Len(a) = IF clone_groups = <<>> THEN 0 ELSE 2 * Len(clone_groups) - 1
    /\ \A k \in 1..Len(a) :
          IF k % 2 = 1 THEN a[k] = clone_groups[(k + 1) \div 2] ELSE a[k] = ","

CommandBase ==
    /\ Len(cmd) >= 8
    /\ cmd[1] = <<"useradd">>
    /\ cmd[2] = <<"--shell">>
    /\ cmd[3] = <<accountsAtStart[args.clone_user]>>
    /\ cmd[4] = <<"--create-home">>
    /\ cmd[5] = <<"--user-group">>
    /\ cmd[6] = <<"--groups">>
    /\ GroupsArgument(cmd[7])
    /\ cmd[8] = <<args.new_user>>

\* C10 as stated: the built command has the shell, create-home, user-group,
\* comma-joined groups and target, and has a comment field whose value is the
\* display name exactly when a display name was supplied, empty or not.
C10_CommentIffSupplied ==
    "build" \in steps =>
        /\ CommandBase
        /\ IF args.full_name.supplied
           THEN Len(cmd) = 10 /\ cmd[9] = <<"--comment">> /\ cmd[10] = args.full_name.value
           ELSE Len(cmd) = 8

\* C10 amended: the same command, with a comment field exactly when a
\* non-empty display name was supplied, its value being the display name
\* between two double-quote characters.
C10_CommentIffNonEmpty ==
    "build" \in steps =>
        /\ CommandBase
        /\ IF args.full_name.supplied /\ args.full_name.value # <<>>
           THEN /\ Len(cmd) = 10
                /\ cmd[9] = <<"--comment">>
                /\ Len(cmd[10]) = Len(args.full_name.value) + 2
                /\ cmd[10][1] = "\"" /\ Last(cmd[10]) = "\""
                /\ SubSeq(cmd[10], 2, Len(cmd[10]) - 1) = args.full_name.value
           ELSE Len(cmd) = 8

C10_Witness ==
    /\ "build" \in steps
    /\ Len(clone_groups) = 2
    /\ args.full_name.supplied /\ args.full_name.value # <<>>

====
